---- MODULE Spec2Model ----
(***************************************************************************)
(* Model of RemoteCommandClient (src/clients.py): the identity store, the  *)
(* registration protocol, the action executor and the polling loop.        *)
(*                                                                         *)
(* One process runs run_forever(); every network call, every               *)
(* execute_action() and the sleep are one step each.  The controller, the  *)
(* file system and the executed actions are the environment: their answers *)
(* are chosen with \E from small sets.  FineSpec is the same loop with      *)
(* execute_action() split into the statements of its handlers, and with a  *)
(* clock.                                                                  *)
(***************************************************************************)
EXTENDS Integers, Sequences, FiniteSets

VARIABLES
    client_id,   \* self.client_id
    file,        \* content of client_id.txt, or Absent
    pc,          \* position of the process inside run_forever / run_once
    actions,     \* run_once: the list returned by get_actions()
    results,     \* run_once: the accumulated result list
    idx,         \* run_once: 1-based position of the for loop in actions
    ret,         \* outcome of the last run_once() call of this cycle
    calls,       \* history: the calls issued in the current cycle, in order
    fresh,       \* history: first cycle of a process that loaded no identity
    regDone,     \* history: a registration succeeded, or startup found an identity
    idAssigned,  \* history: assignments of a non-empty identity in this process
    hpc,         \* execute_action: the statement of the handler that is next
    henv,        \* what the environment does to the handler entered last
    procs,       \* number of subordinate processes launched and not yet waited for
    tmp,         \* transient files made by the current action that exist
    fx,          \* history: kinds of effect the current action has had
    clock,       \* time since the start of the current cycle
    period       \* history: time between the starts of the last two cycles

\* the state of the handlers and of the clock
fineVars == <<hpc, henv, procs, tmp, fx, clock, period>>

vars == <<client_id, file, pc, actions, results, idx, ret,
          calls, fresh, regDone, idAssigned, fineVars>>

(***************************************************************************)
(* Bounds.                                                                 *)
(***************************************************************************)
MaxIdLen == 1
MaxBatch == 2

(***************************************************************************)
(* Values.  Text is a sequence of characters; the Python None and a        *)
(* missing file are sequences no text is equal to.                         *)
(***************************************************************************)
Chars == {" ", "a"}
Whitespace == {" "}

None == <<"<None>">>
Absent == <<"<absent>">>

RECURSIVE SeqsOfLen(_, _)
SeqsOfLen(S, n) ==
    IF n = 0 THEN {<<>>}
    ELSE {Append(s, x) : s \in SeqsOfLen(S, n - 1), x \in S}

SeqsUpTo(S, n) == UNION {SeqsOfLen(S, k) : k \in 0..n}

TextsUpTo(n) == SeqsUpTo(Chars, n)

IdTexts == TextsUpTo(MaxIdLen)

\* what the controller can put in the "client_id" field of a 200 answer
ServerIds == IdTexts \cup {None}

\* what client_id.txt can be when a process starts
FileStates == IdTexts \cup {Absent}

RECURSIVE LStrip(_)
LStrip(s) ==
    IF s # <<>> /\ Head(s) \in Whitespace THEN LStrip(Tail(s)) ELSE s

RECURSIVE RStrip(_)
RStrip(s) ==
    IF s # <<>> /\ s[Len(s)] \in Whitespace
    THEN RStrip(SubSeq(s, 1, Len(s) - 1))
    ELSE s

\* str.strip()
Strip(s) == RStrip(LStrip(s))

Truthy_NotNone(v) == v # None

\* Python truthiness of self.client_id: None and "" are false
Truthy(v) == v # None /\ v # <<>>

\* an identity in the sense of the data model: a non-empty token
NonEmptyIdentity(v) == v # None /\ v # <<>>

\* client_id.txt holds an identity that a starting process can read
ValidPersisted(f, readOk) == f # Absent /\ readOk /\ Strip(f) # <<>>

(***************************************************************************)
(* Identity store.                                                         *)
(***************************************************************************)
LoadClientId_NoStrip(f, readOk) ==
    IF f = Absent THEN None
    ELSE IF readOk THEN f
    ELSE None

\* the client_id after __init__: None, then _load_client_id()
LoadClientId(f, readOk) ==
    IF f = Absent THEN None
    ELSE IF readOk THEN Strip(f)
    ELSE None

SaveOutcomes == {"ok", "openfail", "writefail"}

\* the file after _save_client_id(); write_text() rejects a non-string
\* before it opens the file, and truncates the file when it opens it
SaveClientId(f, cid, sv) ==
    IF cid = None THEN f
    ELSE IF sv = "ok" THEN cid
    ELSE IF sv = "writefail" THEN <<>>
    ELSE f

(***************************************************************************)
(* Registration protocol.                                                  *)
(***************************************************************************)
\* answers to POST /get-id: 200 with a "client_id" field, another status,
\* an exception of requests.post, a 200 whose body has no such field
RegResponses ==
    [kind : {"ok"}, id : ServerIds]
        \cup [kind : {"status", "transport", "malformed"}, id : {None}]

register_FallbackId(cid, f, resp, sv) ==
    IF Truthy(cid)
    THEN [ret |-> TRUE, client_id |-> cid, file |-> f, posted |-> FALSE]
    ELSE IF resp.kind = "ok"
    THEN [ret |-> TRUE, client_id |-> resp.id,
          file |-> SaveClientId(f, resp.id, sv), posted |-> TRUE]
    ELSE [ret |-> FALSE, client_id |-> <<"a">>, file |-> f, posted |-> TRUE]

\* register(): the return value, the fields it leaves, whether it posted
register(cid, f, resp, sv) ==
    IF Truthy(cid)
    THEN [ret |-> TRUE, client_id |-> cid, file |-> f, posted |-> FALSE]
    ELSE IF resp.kind = "ok"
    THEN [ret |-> TRUE, client_id |-> resp.id,
          file |-> SaveClientId(f, resp.id, sv), posted |-> TRUE]
    ELSE [ret |-> FALSE, client_id |-> cid, file |-> f, posted |-> TRUE]

(***************************************************************************)
(* Actions as the controller sends them.  An element of the "actions"      *)
(* array is a JSON object (obj) or some other JSON value.                  *)
(***************************************************************************)
Types == {"runpy", "run", "cmd", "zipfile", "bogus"}
Data == {"d"}

NotAnObject == [obj |-> FALSE, type |-> "", data |-> ""]

JsonItems == [obj : {TRUE}, type : Types, data : Data] \cup {NotAnObject}

Batches == SeqsUpTo(JsonItems, MaxBatch)

\* answers to GET /get-actions/<id>: 200 with an "actions" array, 200
\* without one, another status (whatever its body), an exception of
\* requests.get, a 200 whose body is not a JSON object
FetchResponses ==
    [kind : {"ok", "status"}, actions : Batches]
        \cup [kind : {"absent", "transport", "malformed"}, actions : {<<>>}]

get_actions_ResetsIdentity(cid, resp) ==
    IF ~Truthy(cid)
    THEN [actions |-> <<>>, called |-> FALSE, ok |-> FALSE, client_id |-> cid]
    ELSE IF resp.kind = "ok"
    THEN [actions |-> resp.actions, called |-> TRUE, ok |-> TRUE,
          client_id |-> cid]
    ELSE IF resp.kind = "absent"
    THEN [actions |-> <<>>, called |-> TRUE, ok |-> TRUE, client_id |-> cid]
    ELSE [actions |-> <<>>, called |-> TRUE, ok |-> FALSE, client_id |-> None]

get_actions_IgnoresStatus(cid, resp) ==
    IF ~Truthy(cid)
    THEN [actions |-> <<>>, called |-> FALSE, ok |-> FALSE, client_id |-> cid]
    ELSE IF resp.kind \in {"ok", "status"}
    THEN [actions |-> resp.actions, called |-> TRUE,
          ok |-> (resp.kind = "ok"), client_id |-> cid]
    ELSE IF resp.kind = "absent"
    THEN [actions |-> <<>>, called |-> TRUE, ok |-> TRUE, client_id |-> cid]
    ELSE [actions |-> <<>>, called |-> TRUE, ok |-> FALSE, client_id |-> cid]

\* get_actions(): the list it returns, whether it issued the GET, whether
\* the GET was answered 200 with a readable body, and self.client_id after
get_actions(cid, resp) ==
    IF ~Truthy(cid)
    THEN [actions |-> <<>>, called |-> FALSE, ok |-> FALSE, client_id |-> cid]
    ELSE IF resp.kind = "ok"
    THEN [actions |-> resp.actions, called |-> TRUE, ok |-> TRUE,
          client_id |-> cid]
    ELSE IF resp.kind = "absent"
    THEN [actions |-> <<>>, called |-> TRUE, ok |-> TRUE, client_id |-> cid]
    ELSE [actions |-> <<>>, called |-> TRUE, ok |-> FALSE, client_id |-> cid]

(***************************************************************************)
(* Action executor.  The output of a handler is a text, written as the     *)
(* pair of its message and the payload it embeds.  Raised stands for an    *)
(* exception leaving the function.                                         *)
(***************************************************************************)
Raised == <<"<raised>">>

\* what the environment can do to a handler of each type: one outcome for
\* each return statement of the handler
HandlerEnvs(t) ==
    CASE t = "runpy" -> {"ok", "noout"}
      [] t = "run" -> {"ok", "missing", "spawnfail"}
      [] t = "cmd" -> {"ok", "spawnfail"}
      [] t = "zipfile" -> {"ok", "status", "badzip"}
      [] OTHER -> {"none"}

\* the wrapper wrote its output file and it was read back ("ok"), or some
\* statement of the try block raised
execute_runpy(code, env) ==
    CASE env = "ok" -> <<"captured output", code>>
      [] OTHER -> <<"Failed to execute Python code: e", code>>

execute_run_file(filename, env) ==
    CASE env = "missing" -> <<"Error: File not found", filename>>
      [] env = "ok" -> <<"stdout and stderr", filename>>
      [] OTHER -> <<"Failed to execute Python file: e", filename>>

execute_command_Propagates(command, env) ==
    CASE env = "ok" -> <<"stdout and stderr", command>>
      [] OTHER -> Raised

execute_command(command, env) ==
    CASE env = "ok" -> <<"stdout and stderr", command>>
      [] OTHER -> <<"Failed to execute command: e", command>>

download_and_extract_zip(url, env) ==
    CASE env = "status" -> <<"Failed to download ZIP: status - text", url>>
      [] env = "ok" -> <<"Successfully downloaded and extracted ZIP", url>>
      [] OTHER -> <<"Failed to download or extract ZIP: e", url>>

\* the dispatch of execute_action()
Dispatch(action, env) ==
    CASE action.type = "runpy" -> execute_runpy(action.data, env)
      [] action.type = "run" -> execute_run_file(action.data, env)
      [] action.type = "cmd" -> execute_command(action.data, env)
      [] action.type = "zipfile" -> download_and_extract_zip(action.data, env)
      [] OTHER -> <<"Unknown action type", action.type>>

\* execute_action(): action.get() raises on a value that is no object,
\* and an exception of a handler would leave execute_action() too
execute_action(action, env) ==
    IF ~action.obj
    THEN [raised |-> TRUE, action |-> action, output |-> Raised]
    ELSE [raised |-> (Dispatch(action, env) = Raised),
          action |-> action, output |-> Dispatch(action, env)]

(***************************************************************************)
(* Reporting.                                                              *)
(***************************************************************************)
ReportResponses == {"ok", "status", "transport"}

\* report_results(): the return value and whether it posted
report_results(res, resp) ==
    IF res = <<>> THEN [ret |-> TRUE, called |-> FALSE]
    ELSE [ret |-> (resp = "ok"), called |-> TRUE]

(***************************************************************************)
(* The body of run_once() between its calls.                               *)
(***************************************************************************)
AfterFetch_EmptyFails(acts) ==
    IF acts = <<>>
    THEN [pc |-> "sleep", ret |-> "False", idx |-> 0]
    ELSE [pc |-> "exec", ret |-> "none", idx |-> 1]

\* "if not actions: return True", else the for loop is entered
AfterFetch(acts) ==
    IF acts = <<>>
    THEN [pc |-> "sleep", ret |-> "True", idx |-> 0]
    ELSE [pc |-> "exec", ret |-> "none", idx |-> 1]

AppendResult_AtFront(res, r) == <<r>> \o res

\* results.append(result)
AppendResult(res, r) == Append(res, r)

LoopDone_OffByOne(i, acts) == i + 1 >= Len(acts)

\* "for action in actions" is exhausted after the i-th iteration
LoopDone(i, acts) == i = Len(acts)

(***************************************************************************)
(* History of the current cycle: one event per call, in the order issued.  *)
(* id is self.client_id when the call was issued; ok is whether the call   *)
(* was answered with success (for exec: whether execute_action returned);  *)
(* items is the answered batch (fetch) or the executed action (exec); out  *)
(* is the output (exec); res is the result list sent (report).             *)
(***************************************************************************)
Event(op, id, ok, items, out, res) ==
    [op |-> op, id |-> id, ok |-> ok, items |-> items, out |-> out, res |-> res]

Min(a, b) == IF a < b THEN a ELSE b

(***************************************************************************)
(* The process.                                                            *)
(***************************************************************************)
\* the state after RemoteCommandClient(...), before run_forever()
Started(f, readOk) ==
    /\ client_id = LoadClientId(f, readOk)
    /\ file = f
    /\ pc = "cycle"
    /\ actions = <<>>
    /\ results = <<>>
    /\ idx = 0
    /\ ret = "none"
    /\ calls = <<>>
    /\ fresh = ~ValidPersisted(f, readOk)
    /\ regDone = ValidPersisted(f, readOk)
    /\ idAssigned = IF NonEmptyIdentity(LoadClientId(f, readOk)) THEN 1 ELSE 0
    /\ hpc = "none"
    /\ henv = "none"
    /\ procs = 0
    /\ tmp = {}
    /\ fx = {}
    /\ clock = 0
    /\ period = {}

Init == \E f \in FileStates, readOk \in BOOLEAN : Started(f, readOk)

\* run_once(), first statement: no identity is held, register() is called
Register ==
    /\ pc = "cycle"
    /\ ~Truthy(client_id)
    /\ \E resp \in RegResponses, sv \in SaveOutcomes :
          LET r == register(client_id, file, resp, sv) IN
            /\ client_id' = r.client_id
            /\ file' = r.file
            /\ calls' = IF r.posted
                        THEN Append(calls, Event("register", client_id, r.ret,
                                                 <<>>, <<>>, <<>>))
                        ELSE calls
            /\ pc' = IF r.ret THEN "fetch" ELSE "sleep"
            /\ ret' = IF r.ret THEN "none" ELSE "False"
            /\ regDone' = (regDone \/ (r.posted /\ r.ret))
            /\ idAssigned' = IF r.client_id # client_id
                                /\ NonEmptyIdentity(r.client_id)
                             THEN Min(idAssigned + 1, 2)
                             ELSE idAssigned
    /\ UNCHANGED <<actions, results, idx, fresh, fineVars>>

\* run_once(): actions = self.get_actions(), and the test that follows
GetActions ==
    /\ \/ pc = "fetch"
       \/ pc = "cycle" /\ Truthy(client_id)
    /\ \E resp \in FetchResponses :
          LET r == get_actions(client_id, resp) IN
            /\ client_id' = r.client_id
            /\ actions' = r.actions
            /\ calls' = IF r.called
                        THEN Append(calls, Event("fetch", client_id, r.ok,
                                                 r.actions, <<>>, <<>>))
                        ELSE calls
            /\ pc' = AfterFetch(r.actions).pc
            /\ ret' = AfterFetch(r.actions).ret
            /\ idx' = AfterFetch(r.actions).idx
            /\ idAssigned' = IF r.client_id # client_id
                                /\ NonEmptyIdentity(r.client_id)
                             THEN Min(idAssigned + 1, 2)
                             ELSE idAssigned
    /\ results' = <<>>
    /\ UNCHANGED <<file, fresh, regDone, fineVars>>

OnException_Terminates == "terminated"

\* run_forever(): where an exception that left run_once() takes the
\* process: "except Exception" logs it and time.sleep() follows
OnException == "sleep"

\* run_once(): one iteration of the for loop
ExecuteAction ==
    /\ pc = "exec"
    /\ \E env \in HandlerEnvs(actions[idx].type) :
          LET r == execute_action(actions[idx], env) IN
            /\ calls' = Append(calls, Event("exec", client_id, ~r.raised,
                                            <<r.action>>, r.output, <<>>))
            /\ IF r.raised
               THEN /\ pc' = OnException
                    /\ ret' = "raised"
                    /\ UNCHANGED <<results, idx>>
               ELSE /\ results' = AppendResult(results,
                                         [action |-> r.action, output |-> r.output])
                    /\ idx' = idx + 1
                    /\ pc' = IF LoopDone(idx, actions) THEN "report" ELSE "exec"
                    /\ ret' = "none"
    /\ UNCHANGED <<client_id, file, actions, fresh, regDone, idAssigned,
                   fineVars>>

ReportResults_RetriesOnFailure ==
    /\ pc = "report"
    /\ \E resp \in ReportResponses :
          LET r == report_results(results, resp) IN
            /\ calls' = IF r.called
                        THEN Append(calls, Event("report", client_id, r.ret,
                                                 <<>>, <<>>, results))
                        ELSE calls
            /\ ret' = IF r.ret THEN "True" ELSE "False"
            /\ pc' = IF r.ret THEN "sleep" ELSE "report"
    /\ UNCHANGED <<client_id, file, actions, results, idx, fresh,
                   regDone, idAssigned, fineVars>>

\* run_once(): return self.report_results(results)
ReportResults ==
    /\ pc = "report"
    /\ \E resp \in ReportResponses :
          LET r == report_results(results, resp) IN
            /\ calls' = IF r.called
                        THEN Append(calls, Event("report", client_id, r.ret,
                                                 <<>>, <<>>, results))
                        ELSE calls
            /\ ret' = IF r.ret THEN "True" ELSE "False"
    /\ pc' = "sleep"
    /\ UNCHANGED <<client_id, file, actions, results, idx, fresh,
                   regDone, idAssigned, fineVars>>

\* run_forever(): run_once() is over, time.sleep(), next iteration
Sleep ==
    /\ pc = "sleep"
    /\ pc' = "cycle"
    /\ fresh' = FALSE
    /\ calls' = <<>>
    /\ actions' = <<>>
    /\ results' = <<>>
    /\ idx' = 0
    /\ ret' = "none"
    /\ UNCHANGED <<client_id, file, regDone, idAssigned, fineVars>>

\* the process is terminated from outside and started again later
Restart ==
    \E readOk \in BOOLEAN :
        /\ client_id' = LoadClientId(file, readOk)
        /\ file' = file
        /\ pc' = "cycle"
        /\ actions' = <<>>
        /\ results' = <<>>
        /\ idx' = 0
        /\ ret' = "none"
        /\ calls' = <<>>
        /\ fresh' = ~ValidPersisted(file, readOk)
        /\ regDone' = ValidPersisted(file, readOk)
        /\ idAssigned' = IF NonEmptyIdentity(LoadClientId(file, readOk))
                         THEN 1 ELSE 0
        /\ UNCHANGED fineVars

Step == Register \/ GetActions \/ ExecuteAction \/ ReportResults \/ Sleep

Next == Step \/ Restart

Spec == Init /\ [][Next]_vars

\* one process that nothing terminates, whose calls all return
LiveSpec == Init /\ [][Step]_vars /\ WF_vars(Step)

TypeOK ==
    /\ client_id \in ServerIds
    /\ file \in FileStates
    /\ pc \in {"cycle", "fetch", "exec", "report", "sleep"}
    /\ actions \in Batches
    /\ Len(results) <= Len(actions)
    /\ idx \in 0..(MaxBatch + 1)
    /\ ret \in {"none", "True", "False", "raised"}
    /\ Len(calls) <= MaxBatch + 3
    /\ fresh \in BOOLEAN
    /\ regDone \in BOOLEAN
    /\ idAssigned \in 0..2

(***************************************************************************)
(* The same cycle at the grain of the statements of the handlers, for one  *)
(* process that holds an identity.  A handler is a walk through its        *)
(* statements; henv says which of them fails.  Time passes while actions   *)
(* are executed and reported.                                              *)
(***************************************************************************)
MaxBusy == 1

\* the default of poll_interval, in seconds
PollInterval == 30

\* what the environment can do to a handler: one outcome for each
\* statement that can fail, and the outcomes of the helper process
StepEnvs(t) ==
    CASE t = "runpy" -> {"ok", "usererr", "nofile", "spawnfail", "noout",
                         "readfail"}
      [] t = "run" -> {"ok", "missing", "spawnfail"}
      [] t = "cmd" -> {"ok", "spawnfail"}
      [] t = "zipfile" -> {"ok", "netfail", "status", "midfail", "badzip"}
      [] OTHER -> {"none"}

\* the return statement a walk ends in, as an outcome of HandlerEnvs
ReturnOf(t, env) ==
    CASE t = "runpy" -> IF env \in {"ok", "usererr"} THEN "ok" ELSE "noout"
      [] t = "zipfile" -> IF env \in {"ok", "status"} THEN env ELSE "badzip"
      [] OTHER -> env

Entry_UnknownRunsCommand(t) ==
    CASE t = "runpy" -> "create"
      [] t = "run" -> "exists"
      [] t = "zipfile" -> "get"
      [] OTHER -> "spawn"

\* execute_action(): the first statement of the handler of a type; an
\* unknown type has no handler, its message is returned at once
Entry(t) ==
    CASE t = "runpy" -> "create"
      [] t = "run" -> "exists"
      [] t = "cmd" -> "spawn"
      [] t = "zipfile" -> "get"
      [] OTHER -> "return"

AfterExists_NoCheck(env) == "spawn"

\* execute_run_file(): "if not file_path.exists(): return ..."
AfterExists(env) == IF env = "missing" THEN "return" ELSE "spawn"

AfterSpawn_NoWait(t) == IF t = "runpy" THEN "read" ELSE "return"

\* subprocess.run() returns only when the process it launched has ended
AfterSpawn(t) == "wait"

\* execute_action() is entered for actions[idx]
BeginAction ==
    /\ pc = "exec"
    /\ hpc = "none"
    /\ tmp' = {}
    /\ fx' = {}
    /\ IF ~actions[idx].obj
       THEN /\ calls' = Append(calls, Event("exec", client_id, FALSE,
                                            <<actions[idx]>>, Raised, <<>>))
            /\ pc' = OnException
            /\ ret' = "raised"
            /\ UNCHANGED <<hpc, henv>>
       ELSE /\ \E env \in StepEnvs(actions[idx].type) : henv' = env
            /\ hpc' = Entry(actions[idx].type)
            /\ UNCHANGED <<calls, pc, ret>>
    /\ UNCHANGED <<client_id, file, actions, results, idx, fresh, regDone,
                   idAssigned, procs, clock, period>>

\* execute_runpy(): the wrapper script is written to a temporary file
RunpyCreate ==
    /\ hpc = "create"
    /\ IF henv = "nofile"
       THEN hpc' = "return" /\ UNCHANGED <<tmp, fx>>
       ELSE /\ hpc' = "spawn"
            /\ tmp' = tmp \cup {"script"}
            /\ fx' = fx \cup {"file"}
    /\ UNCHANGED <<client_id, file, pc, actions, results, idx, ret, calls,
                   fresh, regDone, idAssigned, henv, procs, clock, period>>

\* execute_run_file(): the test that the file exists
RunExists ==
    /\ hpc = "exists"
    /\ hpc' = AfterExists(henv)
    /\ UNCHANGED <<client_id, file, pc, actions, results, idx, ret, calls,
                   fresh, regDone, idAssigned, henv, procs, tmp, fx, clock,
                   period>>

\* subprocess.run(): the subordinate process is launched
Spawn ==
    /\ hpc = "spawn"
    /\ IF henv = "spawnfail"
       THEN hpc' = "return" /\ UNCHANGED <<procs, fx>>
       ELSE /\ hpc' = AfterSpawn(actions[idx].type)
            /\ procs' = procs + 1
            /\ fx' = fx \cup {"proc"}
    /\ UNCHANGED <<client_id, file, pc, actions, results, idx, ret, calls,
                   fresh, regDone, idAssigned, henv, tmp, clock, period>>

\* subprocess.run(): the subordinate process has ended; the wrapper of
\* runpy has written its output file unless it ended before doing so
Wait ==
    /\ hpc = "wait"
    /\ procs' = procs - 1
    /\ tmp' = IF actions[idx].type = "runpy"
                 /\ henv \in {"ok", "usererr", "readfail"}
              THEN tmp \cup {"out"} ELSE tmp
    /\ hpc' = IF actions[idx].type = "runpy" THEN "read" ELSE "return"
    /\ UNCHANGED <<client_id, file, pc, actions, results, idx, ret, calls,
                   fresh, regDone, idAssigned, henv, fx, clock, period>>

\* execute_runpy(): the output file is opened and read
RunpyRead ==
    /\ hpc = "read"
    /\ hpc' = IF henv \in {"noout", "readfail"} THEN "return" ELSE "cleanup"
    /\ UNCHANGED <<client_id, file, pc, actions, results, idx, ret, calls,
                   fresh, regDone, idAssigned, henv, procs, tmp, fx, clock,
                   period>>

\* execute_runpy(): os.unlink() of the script and of its output file
RunpyCleanup ==
    /\ hpc = "cleanup"
    /\ tmp' = tmp \ {"script", "out"}
    /\ hpc' = "return"
    /\ UNCHANGED <<client_id, file, pc, actions, results, idx, ret, calls,
                   fresh, regDone, idAssigned, henv, procs, fx, clock, period>>

\* download_and_extract_zip(): requests.get() and the test of the status
ZipGet ==
    /\ hpc = "get"
    /\ fx' = fx \cup {"net"}
    /\ hpc' = IF henv \in {"netfail", "status"} THEN "return" ELSE "save"
    /\ UNCHANGED <<client_id, file, pc, actions, results, idx, ret, calls,
                   fresh, regDone, idAssigned, henv, procs, tmp, clock, period>>

\* download_and_extract_zip(): the body is written to a temporary file
ZipSave ==
    /\ hpc = "save"
    /\ tmp' = tmp \cup {"zip"}
    /\ fx' = fx \cup {"file"}
    /\ hpc' = IF henv = "midfail" THEN "return" ELSE "extract"
    /\ UNCHANGED <<client_id, file, pc, actions, results, idx, ret, calls,
                   fresh, regDone, idAssigned, henv, procs, clock, period>>

\* download_and_extract_zip(): ZipFile(...).extractall('.')
ZipExtract ==
    /\ hpc = "extract"
    /\ hpc' = IF henv = "badzip" THEN "return" ELSE "unlink"
    /\ UNCHANGED <<client_id, file, pc, actions, results, idx, ret, calls,
                   fresh, regDone, idAssigned, henv, procs, tmp, fx, clock,
                   period>>

\* download_and_extract_zip(): os.unlink(temp_path)
ZipUnlink ==
    /\ hpc = "unlink"
    /\ tmp' = tmp \ {"zip"}
    /\ hpc' = "return"
    /\ UNCHANGED <<client_id, file, pc, actions, results, idx, ret, calls,
                   fresh, regDone, idAssigned, henv, procs, fx, clock, period>>

\* execute_action() returns its result, run_once() appends it
EndAction ==
    /\ hpc = "return"
    /\ LET r == execute_action(actions[idx],
                               ReturnOf(actions[idx].type, henv)) IN
          /\ calls' = Append(calls, Event("exec", client_id, ~r.raised,
                                          <<r.action>>, r.output, <<>>))
          /\ IF r.raised
             THEN /\ pc' = OnException
                  /\ ret' = "raised"
                  /\ UNCHANGED <<results, idx>>
             ELSE /\ results' = AppendResult(results,
                                       [action |-> r.action, output |-> r.output])
                  /\ idx' = idx + 1
                  /\ pc' = IF LoopDone(idx, actions) THEN "report" ELSE "exec"
                  /\ ret' = "none"
    /\ hpc' = "none"
    /\ UNCHANGED <<client_id, file, actions, fresh, regDone, idAssigned,
                   henv, procs, tmp, fx, clock, period>>

\* time passes while the cycle executes its actions and reports
Tick ==
    /\ pc \in {"exec", "report"}
    /\ clock < MaxBusy
    /\ clock' = clock + 1
    /\ UNCHANGED <<client_id, file, pc, actions, results, idx, ret, calls,
                   fresh, regDone, idAssigned, hpc, henv, procs, tmp, fx,
                   period>>

\* run_forever(): time.sleep(self.poll_interval) after run_once(), then
\* the next cycle starts
SleepTimed ==
    /\ pc = "sleep"
    /\ pc' = "cycle"
    /\ fresh' = FALSE
    /\ calls' = <<>>
    /\ actions' = <<>>
    /\ results' = <<>>
    /\ idx' = 0
    /\ ret' = "none"
    /\ period' = {clock + PollInterval}
    /\ clock' = 0
    /\ UNCHANGED <<client_id, file, regDone, idAssigned, hpc, henv, procs,
                   tmp, fx>>

\* a process that found the identity "a" in client_id.txt
FineInit == Started(<<"a">>, TRUE)

FineNext ==
    \/ GetActions
    \/ BeginAction
    \/ RunpyCreate
    \/ RunExists
    \/ Spawn
    \/ Wait
    \/ RunpyRead
    \/ RunpyCleanup
    \/ ZipGet
    \/ ZipSave
    \/ ZipExtract
    \/ ZipUnlink
    \/ EndAction
    \/ ReportResults
    \/ Tick
    \/ SleepTimed

FineSpec == FineInit /\ [][FineNext]_vars

FineTypeOK ==
    /\ hpc \in {"none", "create", "exists", "spawn", "wait", "read",
                 "cleanup", "get", "save", "extract", "unlink", "return"}
    /\ henv \in {"none"} \cup UNION {StepEnvs(t) : t \in Types}
    /\ procs \in 0..1
    /\ tmp \subseteq {"script", "out", "zip"}
    /\ fx \subseteq {"file", "proc", "net"}
    /\ clock \in 0..MaxBusy
    /\ period \subseteq PollInterval..(PollInterval + MaxBusy)

(***************************************************************************)
(* Properties.                                                             *)
(***************************************************************************)
Ops(op) == {k \in 1..Len(calls) : calls[k].op = op}

WellFormed(b) == \A i \in 1..Len(b) : b[i].obj

\* a text: the message of a handler and the payload embedded in it
IsText(o) == o # Raised /\ Len(o) = 2

RegFailedNow == \E k \in Ops("register") : ~calls[k].ok

FetchFailedNow == \E k \in Ops("fetch") : ~calls[k].ok

\* C1: every fetch-actions call and every report-results call is issued
\* while self.client_id is a non-empty identity.
C1_CallsHoldIdentity ==
    \A k \in Ops("fetch") \cup Ops("report") : NonEmptyIdentity(calls[k].id)

C1_Witness ==
    /\ Ops("register") # {}
    /\ Ops("fetch") # {}
    /\ Ops("report") # {}

\* C2: once a registration call has succeeded, or a starting process has
\* found a valid persisted identity, no step issues a registration call.
C2_RegistrationNeverRepeated ==
    [][regDone => Cardinality({k \in 1..Len(calls') : calls'[k].op = "register"})
                    <= Cardinality(Ops("register"))]_vars

\* C3: in the first cycle of a process that found no persisted identity,
\* exactly one registration call is issued, it is the first call of the
\* cycle, and every fetch-actions call comes after it.
C3_FirstCycleRegistersOnce ==
    fresh =>
        /\ Cardinality(Ops("register")) <= 1
        /\ \A k \in Ops("fetch") : \E j \in Ops("register") : j < k
        /\ pc # "cycle" => Ops("register") = {1}

C3_Witness ==
    /\ fresh
    /\ file = Absent
    /\ Ops("fetch") # {}

\* C4: in a cycle whose fetch returned a non-empty list of actions, the
\* calls are: that one fetch, then one execution per action in the order
\* of the list, then one report; the cycle is over only after the report.
C4_FetchExecuteReportOrder ==
    \A f \in Ops("fetch") :
        (calls[f].ok /\ calls[f].items # <<>> /\ WellFormed(calls[f].items)) =>
            LET b == calls[f].items
                n == Len(calls[f].items)
            IN  /\ Ops("fetch") = {f}
                /\ \A k \in Ops("exec") \cup Ops("report") : k > f
                /\ Len(calls) <= f + n + 1
                /\ \A k \in (f + 1)..Len(calls) :
                      IF k <= f + n
                      THEN calls[k].op = "exec" /\ calls[k].items = <<b[k - f]>>
                      ELSE calls[k].op = "report"
                /\ pc = "sleep" => Len(calls) = f + n + 1
                /\ pc = "report" <=> Len(calls) = f + n

C4_Witness ==
    /\ pc = "sleep"
    /\ \E f \in Ops("fetch") : calls[f].ok /\ Len(calls[f].items) >= 2
    /\ Ops("report") # {}

\* C5: the result list of a report call has the length of the fetched
\* batch; its i-th entry carries the i-th fetched action and the output
\* that the execution of that action produced.
C5_ReportPreservesOrderAndPairing ==
    \A r \in Ops("report") :
        \E f \in Ops("fetch") :
            /\ Ops("fetch") = {f}
            /\ Len(calls[r].res) = Len(calls[f].items)
            /\ \A i \in 1..Len(calls[f].items) :
                  /\ calls[r].res[i].action = calls[f].items[i]
                  /\ calls[f + i].op = "exec"
                  /\ calls[f + i].items = <<calls[f].items[i]>>
                  /\ calls[r].res[i].output = calls[f + i].out

C5_Witness ==
    \E r \in Ops("report") :
        /\ Len(calls[r].res) >= 2
        /\ calls[r].res[1].action # calls[r].res[2].action
        /\ calls[r].res[1].output # calls[r].res[2].output

\* C6: a fetch answered with an empty or absent list ends the cycle at
\* once: no execution, no report call, and run_once() returns True.
C6_EmptyListEndsCycle ==
    \A f \in Ops("fetch") :
        (calls[f].ok /\ calls[f].items = <<>>) =>
            /\ f = Len(calls)
            /\ Ops("exec") = {}
            /\ Ops("report") = {}
            /\ pc = "sleep"
            /\ ret = "True"

C6_Witness ==
    /\ \E f \in Ops("fetch") : calls[f].ok /\ calls[f].items = <<>>
    /\ pc = "sleep"

\* C7: the execution of an action returns a result with a text as output
\* and raises nothing, whatever its type and whatever its handler met; a
\* cycle over a batch of actions ends with all of them executed and
\* reported.
C7_ExecutionNeverPropagates ==
    /\ \A k \in Ops("exec") :
          calls[k].items[1].obj => calls[k].ok /\ IsText(calls[k].out)
    /\ \A f \in Ops("fetch") :
          (WellFormed(calls[f].items) /\ calls[f].items # <<>> /\ pc = "sleep") =>
              /\ ret # "raised"
              /\ Cardinality(Ops("exec")) = Len(calls[f].items)
              /\ \E r \in Ops("report") :
                    Len(calls[r].res) = Len(calls[f].items)

C7_Witness ==
    /\ pc = "sleep"
    /\ \E k \in Ops("exec") :
          /\ calls[k].out[1] = "Failed to execute command: e"
          /\ \E j \in Ops("exec") : j > k
    /\ \E k \in Ops("exec") : calls[k].out[1] = "Failed to execute Python code: e"
    /\ Ops("report") # {}

\* run_once() is about to be called
CycleStart == pc = "cycle" /\ calls = <<>>

\* C8: a fetch-actions call answered with a non-success status, or that
\* failed in transport, ends the cycle normally with no execution and no
\* report; the process sleeps, starts another cycle with its identity, and
\* the first call of that cycle is a fetch-actions call again.
C8_FetchFailureIsRetried ==
    /\ [](FetchFailedNow =>
            /\ pc = "sleep"
            /\ ret = "True"
            /\ Ops("exec") = {}
            /\ Ops("report") = {}
            /\ Ops("fetch") = {Len(calls)})
    /\ (FetchFailedNow ~> (CycleStart /\ NonEmptyIdentity(client_id)))
    /\ [][(CycleStart /\ NonEmptyIdentity(client_id)) =>
            (Len(calls') = 1 /\ calls'[1].op = "fetch")]_vars
    /\ ((CycleStart /\ NonEmptyIdentity(client_id)) ~> (Ops("fetch") # {}))

C8_Witness ==
    /\ FetchFailedNow
    /\ Ops("register") = {}
    /\ ~fresh

\* C9: a registration call that fails leaves self.client_id and the
\* identity file as they were, with no identity held; the cycle ends with
\* no other call, the process sleeps, and the first call of the next cycle
\* is a registration call again.
C9_RegistrationFailureStaysIdle ==
    /\ [](RegFailedNow =>
            /\ ~NonEmptyIdentity(client_id)
            /\ pc = "sleep"
            /\ ret = "False"
            /\ calls = <<calls[1]>>)
    /\ [][(~RegFailedNow /\ RegFailedNow') =>
            (client_id' = client_id /\ file' = file)]_vars
    /\ (RegFailedNow ~> (CycleStart /\ ~NonEmptyIdentity(client_id)))
    /\ [][(CycleStart /\ ~NonEmptyIdentity(client_id)) =>
            (Len(calls') = 1 /\ calls'[1].op = "register")]_vars
    /\ ((CycleStart /\ ~NonEmptyIdentity(client_id)) ~> (Ops("register") # {}))

C9_Witness ==
    /\ RegFailedNow
    /\ file # Absent
    /\ ~fresh

ReportFailedNow == \E k \in Ops("report") : ~calls[k].ok

KnownTypes == {"runpy", "run", "cmd", "zipfile"}

\* execute_action() has returned and nothing has happened since but the
\* passing of time: tmp, fx and henv are those of the returned action
Returned ==
    /\ hpc = "none"
    /\ calls # <<>>
    /\ calls[Len(calls)].op = "exec"
    /\ calls[Len(calls)].items[1].obj

LastAction == calls[Len(calls)].items[1]

LastOutput == calls[Len(calls)].out

\* execute_action() is inside the handler of actions[idx]
Executing == hpc # "none"

\* C12: an action whose type has no handler goes from the dispatch to the
\* return statement; its result carries the unknown-type message with the
\* type in it; it launches no process, makes no network call and no file,
\* and no step of execute_action() changes the identity or its file.
C12_UnknownTypeHasNoEffect ==
    /\ []((Executing /\ actions[idx].type \notin KnownTypes) =>
            /\ hpc = "return"
            /\ fx = {}
            /\ tmp = {}
            /\ procs = 0)
    /\ []((Returned /\ LastAction.type \notin KnownTypes) =>
            /\ calls[Len(calls)].ok
            /\ LastOutput = <<"Unknown action type", LastAction.type>>
            /\ results[Len(results)] =
                  [action |-> LastAction, output |-> LastOutput]
            /\ fx = {}
            /\ tmp = {}
            /\ procs = 0)
    /\ [][(Executing \/ Executing') =>
            (client_id' = client_id /\ file' = file)]_vars

C12_Witness ==
    /\ Returned
    /\ LastAction.type = "bogus"
    /\ Len(results) = 2
    /\ pc = "report"

\* C13: a run action whose file does not exist goes from the existence
\* test to the return statement without launching a process; its result
\* carries the file-not-found message with the file name in it, and
\* nothing is raised.
C13_MissingFileIsReported ==
    /\ (Executing /\ actions[idx].type = "run" /\ henv = "missing") =>
            /\ hpc \in {"exists", "return"}
            /\ "proc" \notin fx
            /\ procs = 0
    /\ (Returned /\ LastAction.type = "run" /\ henv = "missing") =>
            /\ calls[Len(calls)].ok
            /\ ret # "raised"
            /\ LastOutput = <<"Error: File not found", LastAction.data>>
            /\ results[Len(results)] =
                  [action |-> LastAction, output |-> LastOutput]
            /\ fx = {}
            /\ procs = 0

C13_Witness ==
    /\ Returned
    /\ LastAction.type = "run"
    /\ henv = "missing"
    /\ pc = "report"

\* C14: the identity round-trips through the file: when a registration
\* of this cycle succeeded with identifier X and the file holds exactly X,
\* a process started next that reads the file holds X and does not start
\* as a process without identity.
C14_PersistenceRoundTrips ==
    [][(/\ \E k \in Ops("register") : calls[k].ok
        /\ NonEmptyIdentity(client_id)
        /\ file = client_id
        /\ pc' = "cycle"
        /\ calls' = <<>>
        /\ client_id' # None)
       => (client_id' = client_id /\ ~fresh')]_vars

\* C15: when the execution of a runpy action has returned, neither the
\* wrapper script nor its output file exists, whatever happened to the
\* helper process and to the reading of its output.
C15_RunpyLeavesNoTransientFile ==
    (Returned /\ LastAction.type = "runpy") => tmp = {}

\* C16: when the execution of a zipfile action has returned, the
\* downloaded archive file does not exist, whatever the outcome; after a
\* non-success status the output tells the status and no file was made.
C16_ZipLeavesNoTransientFile ==
    (Returned /\ LastAction.type = "zipfile") =>
        /\ tmp = {}
        /\ henv = "status" =>
              /\ LastOutput = <<"Failed to download ZIP: status - text",
                                LastAction.data>>
              /\ "file" \notin fx

\* a registration of this cycle succeeded and the file does not hold the
\* identifier it stored: the write failed
SaveFailedNow ==
    /\ \E k \in Ops("register") : calls[k].ok
    /\ file # client_id

\* C17: when a registration succeeded and writing the identity file
\* failed, the next call of the cycle is a fetch issued with the stored
\* identifier, and no registration call is issued afterwards.
C17_SaveFailureKeepsIdentity ==
    /\ [][(SaveFailedNow /\ pc = "fetch") =>
            /\ Len(calls') = Len(calls) + 1
            /\ calls'[Len(calls')].op = "fetch"
            /\ calls'[Len(calls')].id = client_id]_vars
    /\ [][(regDone /\ file # client_id) =>
            Cardinality({k \in 1..Len(calls') : calls'[k].op = "register"})
              <= Cardinality(Ops("register"))]_vars

\* C18: a report call that fails is the last call of its cycle and the
\* only report of it, run_once() returns False without raising, the next
\* step drops the result list, the process starts another cycle with its
\* identity, the first call of that cycle is a fetch, and a report only
\* ever carries the outputs of the executions of its own cycle.
C18_FailedReportIsNotRetried ==
    /\ [](ReportFailedNow =>
            /\ pc = "sleep"
            /\ ret = "False"
            /\ Ops("report") = {Len(calls)})
    /\ [][ReportFailedNow => (calls' = <<>> /\ results' = <<>>)]_vars
    /\ (ReportFailedNow ~>
            (CycleStart /\ NonEmptyIdentity(client_id) /\ results = <<>>))
    /\ [][(CycleStart /\ NonEmptyIdentity(client_id)) =>
            (calls' # <<>> /\ calls'[1].op = "fetch" /\ results' = <<>>)]_vars
    /\ [](\A r \in Ops("report") :
            /\ Len(calls[r].res) < r
            /\ \A i \in 1..Len(calls[r].res) :
                  /\ calls[r - Len(calls[r].res) + i - 1].op = "exec"
                  /\ calls[r - Len(calls[r].res) + i - 1].out
                        = calls[r].res[i].output)

C18_Witness ==
    /\ ReportFailedNow
    /\ pc = "sleep"
    /\ \E k \in Ops("report") : Len(calls[k].res) >= 1

\* C19: the starts of two consecutive cycles are one poll interval apart,
\* whatever time the cycle between them took.
C19_CyclesStartOneIntervalApart == \A d \in period : d = PollInterval

\* C20: at most one subordinate process exists, and only while the
\* handler that launched it waits for it; one action is executed at a
\* time, after all actions before it have returned; while a handler waits
\* no call is issued and no result is added; no process and no handler is
\* left when the report is sent, when the cycle is over and when the next
\* one starts, and a cycle starts with nothing of the cycle before.
C20_OneProcessOneAction ==
    /\ [](procs \in {0, 1})
    /\ [](procs = 1 => hpc = "wait")
    /\ [](Executing =>
            /\ pc = "exec"
            /\ idx \in 1..Len(actions)
            /\ Len(results) = idx - 1
            /\ Cardinality(Ops("exec")) = idx - 1)
    /\ [](pc \in {"report", "sleep", "cycle"} => (procs = 0 /\ ~Executing))
    /\ [](pc = "cycle" => (calls = <<>> /\ results = <<>> /\ actions = <<>>))
    /\ [][hpc = "wait" =>
            (calls' = calls /\ results' = results /\ idx' = idx /\ pc' = pc)]_vars

C20_Witness ==
    /\ procs = 1
    /\ hpc = "wait"
    /\ idx = 2
    /\ results[1].action.type \in {"runpy", "run", "cmd"}
    /\ results[1].output[1] \in {"captured output", "stdout and stderr"}

====
